---- MODULE Spec2Model ----
(***************************************************************************)
(* Model of swri_console's LogDatabaseProxyModel                           *)
(* (src/src/log_database_proxy_model.cpp): the filtered view over the log  *)
(* database, its forward extension (processNewMessages), its backward      *)
(* catch-up in idle callbacks (processOldMessages), the filter setters     *)
(* that reset the view, row access and export.                             *)
(*                                                                         *)
(* Store indices are 0-based as in the code; the TLA+ sequence log is      *)
(* 1-based, so db_->log()[i] is log[i + 1].  Strings are sequences of      *)
(* one-character strings so that substring search is computed.             *)
(***************************************************************************)
EXTENDS Integers, Sequences, FiniteSets, TLC

VARIABLES
  log,                     \* db_->log(): the record store
  names_,                  \* accepted node names
  severity_mask_,          \* accepted severity bits
  display_absolute_time_,
  display_time_,
  use_regular_expressions_,
  include_strings_,
  exclude_strings_,
  include_regexp_,         \* pattern text of the include QRegExp
  exclude_regexp_,         \* pattern text of the exclude QRegExp
  msg_mapping_,            \* the filtered view: store indices
  early_mapping_,          \* the pending backward batch
  earliest_index_,         \* backward cursor
  latest_index_,           \* forward cursor
  timers,                  \* queued QTimer::singleShot(0, processOldMessages)
  emitted,                 \* signals emitted by the last operation, in order
  returned,                \* outcome of the last data() call
  written,                 \* entries written by the last saveToFile() call
  resetSize,               \* history: store size at the last reset
  steps,                   \* history: processOldMessages runs since the last reset
  discarded                \* history: some reset threw away a non-empty view

vars == << log, names_, severity_mask_, display_absolute_time_, display_time_,
           use_regular_expressions_, include_strings_, exclude_strings_,
           include_regexp_, exclude_regexp_, msg_mapping_, early_mapping_,
           earliest_index_, latest_index_, timers, emitted, returned,
           written, resetSize, steps, discarded >>

configVars == << names_, severity_mask_, use_regular_expressions_,
                 include_strings_, exclude_strings_, include_regexp_,
                 exclude_regexp_ >>
displayVars == << display_absolute_time_, display_time_ >>
engineVars == << msg_mapping_, early_mapping_, earliest_index_, latest_index_ >>
historyVars == << resetSize, steps, discarded >>

-----------------------------------------------------------------------------
(* Program constants *)

\* processOldMessages: at most 100 positions per idle callback
BatchSize == 100
\* processOldMessages: flush once more than 200 indices are pending
FlushThreshold == 200

\* rosgraph_msgs::Log severity bits
DEBUG == 1
INFO == 2
WARN == 4
ERROR == 8
FATAL == 16

-----------------------------------------------------------------------------
(* Bounds of the model *)

\* longest store of the bulk specification
MaxBulkLog == 450
\* longest store of the specification with single-record appends
MaxLog == 2
\* most idle callbacks queued at once
MaxTimers == 2
\* longest store of the specification with fairness
MaxFairLog == 350
\* longest store of the specification with every filter setter
MaxFilterLog == 4
\* longest store of the specification of resets during catch-up
MaxResetLog == 150

-----------------------------------------------------------------------------
(* Strings *)

Str_Err == << "E", "r", "r" >>
Str_err == << "e", "r", "r" >>
Str_ok == << "o", "k" >>
Str_OK == << "O", "K" >>
Str_paren == << "(" >>
Str_empty == << >>

\* QChar::toLower on the characters in use
toLower(c) ==
  CASE c = "E" -> "e"
    [] c = "O" -> "o"
    [] c = "K" -> "k"
    [] c = "B" -> "b"
    [] c = "A" -> "a"
    [] c = "G" -> "g"
    [] OTHER -> c

\* QString::contains(sub, cs): some position of s starts a copy of sub
contains(s, sub, caseSensitive) ==
  \E i \in 0 .. (Len(s) - Len(sub)) :
    \A j \in 1 .. Len(sub) :
      IF caseSensitive
        THEN s[i + j] = sub[j]
        ELSE toLower(s[i + j]) = toLower(sub[j])

\* QRegExp::isValid for the patterns in use: literal text, or text with
\* parentheses, which must balance
RECURSIVE parenDepth(_, _)
parenDepth(p, d) ==
  IF p = << >> THEN d
  ELSE IF d < 0 THEN d
  ELSE parenDepth(Tail(p), CASE Head(p) = "(" -> d + 1
                             [] Head(p) = ")" -> d - 1
                             [] OTHER -> d)

isValid(pattern) == parenDepth(pattern, 0) = 0

\* QRegExp::isEmpty
isEmpty(pattern) == pattern = << >>

\* QRegExp::indexIn(str): position of the first match, -1 when there is none;
\* an invalid pattern never matches; a literal pattern matches where the text
\* occurs, case-sensitively; the empty pattern matches at 0
indexIn(pattern, str) ==
  IF ~isValid(pattern) THEN -1
  ELSE LET hits == { i \in 0 .. (Len(str) - Len(pattern)) :
                       \A j \in 1 .. Len(pattern) : str[i + j] = pattern[j] }
       IN  IF hits = {} THEN -1
           ELSE CHOOSE i \in hits : \A k \in hits : i <= k

\* uint8_t a & b
RECURSIVE BitAnd(_, _)
BitAnd(a, b) ==
  IF a = 0 \/ b = 0 THEN 0
  ELSE (a % 2) * (b % 2) + 2 * BitAnd(a \div 2, b \div 2)

-----------------------------------------------------------------------------
(* Filter predicate *)

\* mutant: the include strings are compared case-sensitively
testIncludeFilter_caseSensitive(item) ==
  IF use_regular_expressions_
    THEN indexIn(include_regexp_, item.msg) >= 0
    ELSE IF include_strings_ = << >> THEN TRUE
    ELSE \E i \in 1 .. Len(include_strings_) :
           contains(item.msg, include_strings_[i], TRUE)

testIncludeFilter(item) ==
  IF use_regular_expressions_
    THEN indexIn(include_regexp_, item.msg) >= 0
    ELSE IF include_strings_ = << >> THEN TRUE
    ELSE \E i \in 1 .. Len(include_strings_) :
           contains(item.msg, include_strings_[i], FALSE)

acceptLogEntry(item) ==
  IF BitAnd(item.level, severity_mask_) = 0 THEN FALSE
  ELSE IF item.node \notin names_ THEN FALSE
  ELSE IF ~testIncludeFilter(item) THEN FALSE
  ELSE IF use_regular_expressions_
    THEN isEmpty(exclude_regexp_) \/ indexIn(exclude_regexp_, item.msg) < 0
    ELSE ~ \E i \in 1 .. Len(exclude_strings_) :
             contains(item.msg, exclude_strings_[i], FALSE)

isIncludeValid == ~(use_regular_expressions_ /\ ~isValid(include_regexp_))

isExcludeValid == ~(use_regular_expressions_ /\ ~isValid(exclude_regexp_))

-----------------------------------------------------------------------------
(* Records and signals *)

E_warnA == [level |-> WARN, node |-> "A", msg |-> Str_Err]
E_infoA == [level |-> INFO, node |-> "A", msg |-> Str_ok]

LogEntries == { E_warnA, E_infoA }

E_errorA == [level |-> ERROR, node |-> "A", msg |-> Str_Err]
E_warnB == [level |-> WARN, node |-> "B", msg |-> Str_ok]

FilterEntries == { E_infoA, E_warnA, E_errorA, E_warnB }

rowsInserted(first, last) == [sig |-> "rowsInserted", first |-> first, last |-> last]
dataChanged(first, last) == [sig |-> "dataChanged", first |-> first, last |-> last]
messagesAdded == [sig |-> "messagesAdded", first |-> 0, last |-> 0]
modelReset == [sig |-> "modelReset", first |-> 0, last |-> 0]

NoValue == [kind |-> "none"]

-----------------------------------------------------------------------------
(* processNewMessages *)

\* mutant: the loop starts one position late
scanNew_skipsFirst(lg, latest, new_items) ==
  LET visited == [k \in 1 .. (Len(lg) - latest - 1) |-> latest + k] IN
    new_items \o SelectSeq(visited, LAMBDA i : acceptLogEntry(lg[i + 1]))

\* the loop of processNewMessages: positions latest .. size-1 in ascending
\* order, the accepted ones pushed to the back of new_items
scanNew(lg, latest, new_items) ==
  LET visited == [k \in 1 .. (Len(lg) - latest) |-> latest + k - 1] IN
    new_items \o SelectSeq(visited, LAMBDA i : acceptLogEntry(lg[i + 1]))

\* mutant: the loop leaves the cursor where it found it
latestAfterScan_stuck(lg, latest) == latest

\* where the loop of processNewMessages leaves latest_index_
latestAfterScan(lg, latest) == IF latest < Len(lg) THEN Len(lg) ELSE latest

\* mutant: the new rows are inserted at the front of the view
insertAtEnd_atFront(mapping, new_items) == new_items \o mapping

\* msg_mapping_.insert(msg_mapping_.end(), new_items.begin(), new_items.end())
insertAtEnd(mapping, new_items) == mapping \o new_items

\* the whole slot, run against store content lg
processNewMessages(lg) ==
  LET new_items == scanNew(lg, latest_index_, << >>) IN
    /\ latest_index_' = latestAfterScan(lg, latest_index_)
    /\ IF new_items # << >>
         THEN /\ msg_mapping_' = insertAtEnd(msg_mapping_, new_items)
              /\ emitted' = << rowsInserted(Len(msg_mapping_),
                                            Len(msg_mapping_) + Len(new_items) - 1),
                               messagesAdded >>
         ELSE /\ msg_mapping_' = msg_mapping_
              /\ emitted' = << >>

-----------------------------------------------------------------------------
(* processOldMessages *)

\* mutant: the loop bound is off by one
visitedCount_short(earliest) ==
  IF earliest < BatchSize - 1 THEN earliest ELSE BatchSize - 1

\* mutant: the loop has no batch limit
visitedCount_whole(earliest) == earliest

\* how many positions one run of the loop of processOldMessages visits:
\* it stops at earliest_index_ == 0 or after BatchSize rounds
visitedCount(earliest) == IF earliest < BatchSize THEN earliest ELSE BatchSize

\* the sequence s back to front
reversed(s) == [k \in 1 .. Len(s) |-> s[Len(s) + 1 - k]]

\* mutant: accepted positions pushed to the back of early, not the front
scanOld_pushBack(lg, earliest, early) ==
  LET n == IF earliest < BatchSize THEN earliest ELSE BatchSize
      visited == [k \in 1 .. n |-> earliest - n + k - 1]
  IN  [earliest |-> earliest - n,
       early |-> early \o reversed(SelectSeq(visited,
                                   LAMBDA i : acceptLogEntry(lg[i + 1])))]

\* the loop of processOldMessages: positions earliest-1, earliest-2, ... are
\* visited in descending order and the accepted ones pushed to the front of
\* early, which leaves them in ascending order ahead of what early held
scanOld(lg, earliest, early) ==
  LET n == visitedCount(earliest)
      visited == [k \in 1 .. n |-> earliest - n + k - 1]
  IN  [earliest |-> earliest - n,
       early |-> SelectSeq(visited, LAMBDA i : acceptLogEntry(lg[i + 1]))
                   \o early]

\* mutant: the threshold test is missing
shouldFlush_onlyAtZero(earliest, early) == earliest = 0 /\ Len(early) # 0

\* mutant: the threshold test is >= instead of >
shouldFlush_atThreshold(earliest, early) ==
  \/ earliest = 0 /\ Len(early) # 0
  \/ Len(early) >= FlushThreshold

\* the condition of the flush
shouldFlush(earliest, early) ==
  \/ earliest = 0 /\ Len(early) # 0
  \/ Len(early) > FlushThreshold

\* mutant: the pending batch is inserted at the end of the view
insertAtFront_atEnd(mapping, early) == mapping \o early

\* msg_mapping_.insert(msg_mapping_.begin(), early.begin(), early.end())
insertAtFront(mapping, early) == early \o mapping

\* mutant: a timer is queued whatever the backward cursor
scheduleIdleProcessing_always(queue, earliest) == Append(queue, "current")

\* scheduleIdleProcessing: one more single-shot timer while old records remain
scheduleIdleProcessing(queue, earliest) ==
  IF earliest > 0 THEN Append(queue, "current") ELSE queue

\* mutant: the flush forgets early_mapping_.clear()
stepOld_keepsPending(lg, earliest, early, mapping) ==
  LET n == IF earliest < BatchSize THEN earliest ELSE BatchSize
      visited == [k \in 1 .. n |-> earliest - n + k - 1]
      pending == SelectSeq(visited, LAMBDA i : acceptLogEntry(lg[i + 1])) \o early
  IN  IF (earliest - n = 0 /\ Len(pending) # 0) \/ Len(pending) > FlushThreshold
        THEN [earliest |-> earliest - n,
              early |-> pending,
              mapping |-> pending \o mapping,
              emitted |-> << [sig |-> "rowsInserted", first |-> 0,
                              last |-> Len(pending) - 1],
                             [sig |-> "messagesAdded", first |-> 0, last |-> 0] >>]
        ELSE [earliest |-> earliest - n,
              early |-> pending,
              mapping |-> mapping,
              emitted |-> << >>]

\* one run of the slot from the given engine state: the state it leaves and
\* the signals it emits
stepOld(lg, earliest, early, mapping) ==
  LET r == scanOld(lg, earliest, early) IN
    IF shouldFlush(r.earliest, r.early)
      THEN [earliest |-> r.earliest,
            early |-> << >>,
            mapping |-> insertAtFront(mapping, r.early),
            emitted |-> << rowsInserted(0, Len(r.early) - 1), messagesAdded >>]
      ELSE [earliest |-> r.earliest,
            early |-> r.early,
            mapping |-> mapping,
            emitted |-> << >>]

-----------------------------------------------------------------------------
(* reset *)

\* timers queued before a reset stay queued: nothing in reset() cancels them
agedTimers(queue) == [i \in 1 .. Len(queue) |-> "stale"]

\* mutant: reset() forgets msg_mapping_.clear()
reset_keepsView(lg) ==
  /\ msg_mapping_' = msg_mapping_
  /\ early_mapping_' = << >>
  /\ earliest_index_' = Len(lg)
  /\ latest_index_' = Len(lg)
  /\ timers' = IF Len(lg) > 0 THEN Append([i \in 1 .. Len(timers) |-> "stale"], "current")
                              ELSE [i \in 1 .. Len(timers) |-> "stale"]
  /\ emitted' = << [sig |-> "modelReset", first |-> 0, last |-> 0] >>
  /\ resetSize' = Len(lg)
  /\ steps' = 0
  /\ discarded' = (discarded \/ msg_mapping_ # << >>)
  /\ returned' = NoValue
  /\ written' = NoValue

\* mutant: reset() forgets early_mapping_.clear()
reset_keepsPending(lg) ==
  /\ msg_mapping_' = << >>
  /\ early_mapping_' = early_mapping_
  /\ earliest_index_' = Len(lg)
  /\ latest_index_' = Len(lg)
  /\ timers' = IF Len(lg) > 0 THEN Append([i \in 1 .. Len(timers) |-> "stale"], "current")
                              ELSE [i \in 1 .. Len(timers) |-> "stale"]
  /\ emitted' = << [sig |-> "modelReset", first |-> 0, last |-> 0] >>
  /\ resetSize' = Len(lg)
  /\ steps' = 0
  /\ discarded' = (discarded \/ msg_mapping_ # << >>)
  /\ returned' = NoValue
  /\ written' = NoValue

\* reset() against store content lg
reset(lg) ==
  /\ msg_mapping_' = << >>
  /\ early_mapping_' = << >>
  /\ earliest_index_' = Len(lg)
  /\ latest_index_' = Len(lg)
  /\ timers' = scheduleIdleProcessing(agedTimers(timers), Len(lg))
  /\ emitted' = << modelReset >>
  /\ resetSize' = Len(lg)
  /\ steps' = 0
  /\ discarded' = (discarded \/ msg_mapping_ # << >>)
  /\ returned' = NoValue
  /\ written' = NoValue

\* a reset is taken only while the timer queue has room for its timer
roomForReset(lg) == Len(timers) + (IF Len(lg) > 0 THEN 1 ELSE 0) <= MaxTimers

-----------------------------------------------------------------------------
(* Inputs *)

NameSets == { {}, {"A"} }
Masks == { WARN + ERROR, INFO + WARN + ERROR }
IncludeLists == { << >>, << Str_err >> }
ExcludeLists == { << >>, << Str_OK >> }
IncludePatterns == { Str_empty, Str_Err, Str_paren }
ExcludePatterns == { Str_empty, Str_ok }

\* what the database delivers in one messagesAdded(): one or two records
SmallBatches == { << e >> : e \in LogEntries } \cup { << E_warnA, E_infoA >> }

\* bulk deliveries: 100 or 150 records all alike, or 100 alternating
uniform(e, n) == [i \in 1 .. n |-> e]
alternating(e, f, n) == [i \in 1 .. n |-> IF i % 2 = 1 THEN e ELSE f]
BulkSizes == { 100, 150 }
BulkBatches == { uniform(E_warnA, n) : n \in BulkSizes }
                 \cup { alternating(E_infoA, E_warnA, 100) }

\* deliveries to the view with every filter setter: one record of each of
\* three severities from node A, or one record from node B
FilterBatches == { << E_infoA, E_warnA, E_errorA >>, << E_warnB >> }

File_bag == << "a", ".", "b", "a", "g" >>
File_BAG == << "a", ".", "B", "A", "G" >>
File_txt == << "a", ".", "t", "x", "t" >>
FileNames == { File_bag, File_BAG, File_txt }
Suffix_bag == << ".", "b", "a", "g" >>

Roles == { "DisplayRole", "ToolTipRole", "DecorationRole" }

-----------------------------------------------------------------------------
(* Construction *)

\* The constructor names only db_ in its initializer list.  The containers
\* start empty and the patterns start empty; the scalar filter and display
\* members have no initializer, so they hold any value.  The cursors are
\* taken where the first reset() over the still empty database puts them.
Init ==
  /\ log = << >>
  /\ names_ = {}
  /\ severity_mask_ \in Masks
  /\ display_absolute_time_ \in BOOLEAN
  /\ display_time_ \in BOOLEAN
  /\ use_regular_expressions_ \in BOOLEAN
  /\ include_strings_ = << >>
  /\ exclude_strings_ = << >>
  /\ include_regexp_ = Str_empty
  /\ exclude_regexp_ = Str_empty
  /\ msg_mapping_ = << >>
  /\ early_mapping_ = << >>
  /\ earliest_index_ = Len(log)
  /\ latest_index_ = Len(log)
  /\ timers = << >>
  /\ emitted = << >>
  /\ returned = NoValue
  /\ written = NoValue
  /\ resetSize = 0
  /\ steps = 0
  /\ discarded = FALSE

-----------------------------------------------------------------------------
(* The database delivers records: messagesAdded() runs processNewMessages *)

DbAppend(items) ==
  /\ log' = log \o items
  /\ processNewMessages(log \o items)
  /\ returned' = NoValue
  /\ written' = NoValue
  /\ UNCHANGED << configVars, displayVars, early_mapping_, earliest_index_,
                  timers, historyVars >>

AppendRecords ==
  \E items \in SmallBatches :
    /\ Len(log) + Len(items) <= MaxLog
    /\ DbAppend(items)

AppendBulk ==
  \E items \in BulkBatches :
    /\ Len(log) + Len(items) <= MaxBulkLog
    /\ DbAppend(items)

AppendBacklog ==
  \E items \in BulkBatches :
    /\ Len(log) + Len(items) <= MaxFairLog
    /\ DbAppend(items)

AppendForReset ==
  \E items \in BulkBatches :
    /\ Len(log) + Len(items) <= MaxResetLog
    /\ DbAppend(items)

AppendFiltered ==
  \E items \in FilterBatches :
    /\ Len(log) + Len(items) <= MaxFilterLog
    /\ DbAppend(items)

\* the slot invoked with nothing new in the database
ProcessNewMessages ==
  /\ processNewMessages(log)
  /\ returned' = NoValue
  /\ written' = NoValue
  /\ UNCHANGED << log, configVars, displayVars, early_mapping_, earliest_index_,
                  timers, historyVars >>

-----------------------------------------------------------------------------
(* An idle callback fires *)

ProcessOldMessages ==
  /\ timers # << >>
  /\ LET r == stepOld(log, earliest_index_, early_mapping_, msg_mapping_) IN
       /\ earliest_index_' = r.earliest
       /\ early_mapping_' = r.early
       /\ msg_mapping_' = r.mapping
       /\ emitted' = r.emitted
       /\ timers' = scheduleIdleProcessing(Tail(timers), r.earliest)
  /\ steps' = steps + 1
  /\ returned' = NoValue
  /\ written' = NoValue
  /\ UNCHANGED << log, configVars, displayVars, latest_index_, resetSize,
                  discarded >>

-----------------------------------------------------------------------------
(* Filter setters and clear *)

setNodeFilter ==
  \E names \in NameSets :
    /\ roomForReset(log)
    /\ names_' = names
    /\ reset(log)
    /\ UNCHANGED << log, severity_mask_, use_regular_expressions_,
                    include_strings_, exclude_strings_, include_regexp_,
                    exclude_regexp_, displayVars >>

setSeverityFilter ==
  \E severity_mask \in Masks :
    /\ roomForReset(log)
    /\ severity_mask_' = severity_mask
    /\ reset(log)
    /\ UNCHANGED << log, names_, use_regular_expressions_, include_strings_,
                    exclude_strings_, include_regexp_, exclude_regexp_,
                    displayVars >>

setUseRegularExpressions ==
  \E useRegexps \in BOOLEAN :
    IF useRegexps = use_regular_expressions_
      THEN UNCHANGED vars
      ELSE /\ roomForReset(log)
           /\ use_regular_expressions_' = useRegexps
           /\ reset(log)
           /\ UNCHANGED << log, names_, severity_mask_, include_strings_,
                           exclude_strings_, include_regexp_, exclude_regexp_,
                           displayVars >>

setIncludeFilters ==
  \E list \in IncludeLists :
    /\ roomForReset(log)
    /\ include_strings_' = list
    /\ reset(log)
    /\ UNCHANGED << log, names_, severity_mask_, use_regular_expressions_,
                    exclude_strings_, include_regexp_, exclude_regexp_,
                    displayVars >>

setExcludeFilters ==
  \E list \in ExcludeLists :
    /\ roomForReset(log)
    /\ exclude_strings_' = list
    /\ reset(log)
    /\ UNCHANGED << log, names_, severity_mask_, use_regular_expressions_,
                    include_strings_, include_regexp_, exclude_regexp_,
                    displayVars >>

setIncludeRegexpPattern ==
  \E pattern \in IncludePatterns :
    /\ roomForReset(log)
    /\ include_regexp_' = pattern
    /\ reset(log)
    /\ UNCHANGED << log, names_, severity_mask_, use_regular_expressions_,
                    include_strings_, exclude_strings_, exclude_regexp_,
                    displayVars >>

setExcludeRegexpPattern ==
  \E pattern \in ExcludePatterns :
    /\ roomForReset(log)
    /\ exclude_regexp_' = pattern
    /\ reset(log)
    /\ UNCHANGED << log, names_, severity_mask_, use_regular_expressions_,
                    include_strings_, exclude_strings_, include_regexp_,
                    displayVars >>

\* db_->clear() empties the store, then reset()
clear ==
  /\ roomForReset(<< >>)
  /\ log' = << >>
  /\ reset(<< >>)
  /\ UNCHANGED << configVars, displayVars >>

-----------------------------------------------------------------------------
(* Row access *)

rowCount == Len(msg_mapping_)

\* index.parent().isValid(): the model is a flat list, whose indexes have no
\* valid parent
parentIsValid(row) == FALSE

\* the early return of data(): both conditions must hold
dataReturnsEarly(row) == parentIsValid(row) /\ row >= Len(msg_mapping_)

levelChar(level) ==
  CASE level = DEBUG -> "D"
    [] level = INFO -> "I"
    [] level = WARN -> "W"
    [] level = ERROR -> "E"
    [] level = FATAL -> "F"
    [] OTHER -> "?"

\* what data() builds from the record at store position i
variantOf(i, role) ==
  LET item == log[i + 1] IN
    CASE role = "DisplayRole" ->
           [kind |-> "text", index |-> i, level |-> levelChar(item.level),
            stamped |-> display_time_, msg |-> item.msg]
      [] role = "ToolTipRole" ->
           [kind |-> "tooltip", index |-> i, node |-> item.node, msg |-> item.msg]
      [] OTHER -> [kind |-> "invalid", index |-> i]

\* msg_mapping_[row] with row outside the deque is undefined behaviour:
\* the call may crash or go on with whatever the memory holds
UndefinedOutcomes == { [kind |-> "undefined", outcome |-> o] :
                         o \in { "crash", "garbage" } }

\* the outcomes of data(index, role) for an index of the given row
dataOutcomes(row, role) ==
  IF dataReturnsEarly(row)
    THEN { [kind |-> "invalid", index |-> -1] }
    ELSE IF row >= 0 /\ row < Len(msg_mapping_)
      THEN { variantOf(msg_mapping_[row + 1], role) }
      ELSE UndefinedOutcomes

data ==
  \E row \in -1 .. Len(msg_mapping_), role \in Roles :
    /\ returned' \in { [row |-> row, role |-> role, value |-> v] :
                         v \in dataOutcomes(row, role) }
    /\ written' = NoValue
    /\ emitted' = << >>
    /\ UNCHANGED << log, configVars, displayVars, engineVars, timers,
                    historyVars >>

-----------------------------------------------------------------------------
(* Export *)

\* QString::endsWith(suffix, Qt::CaseInsensitive)
endsWith(s, suffix) ==
  /\ Len(s) >= Len(suffix)
  /\ \A j \in 1 .. Len(suffix) :
       toLower(s[Len(s) - Len(suffix) + j]) = toLower(suffix[j])

\* saveBagFile: one message per record of db_->log(), from begin() to end()
saveBagFile == [i \in 1 .. Len(log) |-> i - 1]

\* saveTextFile: one line per row i < msg_mapping_.size(), from
\* data(index(i), Qt::DisplayRole)
saveTextFile == [i \in 1 .. Len(msg_mapping_) |-> msg_mapping_[i]]

\* the store positions whose records saveToFile writes, in order
saveToFile(filename) ==
  IF endsWith(filename, Suffix_bag)
    THEN [format |-> "bag", entries |-> saveBagFile]
    ELSE [format |-> "text", entries |-> saveTextFile]

save ==
  \E filename \in FileNames :
    /\ written' = saveToFile(filename)
    /\ returned' = NoValue
    /\ emitted' = << >>
    /\ UNCHANGED << log, configVars, displayVars, engineVars, timers,
                    historyVars >>

-----------------------------------------------------------------------------
(* Display settings *)

setAbsoluteTime ==
  \E absolute \in BOOLEAN :
    IF absolute = display_absolute_time_
      THEN UNCHANGED vars
      ELSE /\ display_absolute_time_' = absolute
           /\ emitted' = IF display_time_ /\ Len(msg_mapping_) # 0
                           THEN << dataChanged(0, Len(msg_mapping_)) >>
                           ELSE << >>
           /\ returned' = NoValue
           /\ written' = NoValue
           /\ UNCHANGED << log, configVars, display_time_, engineVars, timers,
                           historyVars >>

setDisplayTime ==
  \E display \in BOOLEAN :
    IF display = display_time_
      THEN UNCHANGED vars
      ELSE /\ display_time_' = display
           /\ emitted' = IF Len(msg_mapping_) # 0
                           THEN << dataChanged(0, Len(msg_mapping_)) >>
                           ELSE << >>
           /\ returned' = NoValue
           /\ written' = NoValue
           /\ UNCHANGED << log, configVars, display_absolute_time_, engineVars,
                           timers, historyVars >>

\* mutant: minTimeUpdated() does not look at the size of the view
minTimeUpdated_emitsAlways ==
  /\ emitted' = IF display_time_ /\ ~display_absolute_time_
                  THEN << [sig |-> "dataChanged", first |-> 0,
                           last |-> Len(msg_mapping_)] >>
                  ELSE << >>
  /\ returned' = NoValue
  /\ written' = NoValue
  /\ UNCHANGED << log, configVars, displayVars, engineVars, timers,
                  historyVars >>

minTimeUpdated ==
  /\ emitted' = IF display_time_ /\ ~display_absolute_time_
                     /\ Len(msg_mapping_) # 0
                  THEN << dataChanged(0, Len(msg_mapping_)) >>
                  ELSE << >>
  /\ returned' = NoValue
  /\ written' = NoValue
  /\ UNCHANGED << log, configVars, displayVars, engineVars, timers,
                  historyVars >>

-----------------------------------------------------------------------------
(* Specifications *)

\* row access and export over a store that grows by one or two records at a
\* time, with the filter changed through the node names and the include
\* pattern
Next ==
  \/ AppendRecords
  \/ ProcessNewMessages
  \/ ProcessOldMessages
  \/ setNodeFilter
  \/ setUseRegularExpressions
  \/ setIncludeRegexpPattern
  \/ clear
  \/ data
  \/ save

\* the absolute-time flag is read by none of these operations
InitView ==
  /\ Init
  /\ ~display_absolute_time_

Spec == InitView /\ [][Next]_vars

\* the engine over bulk deliveries; the display settings, which no operation
\* of the engine reads, stay as constructed, and so does the matching mode,
\* which decides nothing while both patterns and both lists are empty
InitBulk ==
  /\ Init
  /\ display_time_
  /\ ~display_absolute_time_
  /\ ~use_regular_expressions_

NextBulk ==
  \/ AppendBulk
  \/ ProcessNewMessages
  \/ ProcessOldMessages
  \/ setNodeFilter
  \/ setSeverityFilter
  \/ clear

SpecBulk == InitBulk /\ [][NextBulk]_vars

\* catch-up under appends and resets, with the event loop running the idle
\* callbacks it has queued
InitCatchUp ==
  /\ InitBulk
  /\ severity_mask_ = WARN + ERROR

NextCatchUp ==
  \/ AppendBacklog
  \/ ProcessOldMessages
  \/ setNodeFilter

FairCatchUp ==
  /\ InitCatchUp
  /\ [][NextCatchUp]_vars
  /\ WF_vars(ProcessOldMessages)

\* the engine alone: deliveries, the forward slot invoked with and without
\* new records, idle callbacks, and resets through the node filter and clear
NextEngine ==
  \/ AppendBacklog
  \/ ProcessNewMessages
  \/ ProcessOldMessages
  \/ setNodeFilter
  \/ clear

SpecEngine == InitCatchUp /\ [][NextEngine]_vars

\* every filter setter and clear over a small store of records that differ
\* in severity, node and text; the display settings, which the filter does
\* not read, stay as constructed
InitFilter ==
  /\ Init
  /\ display_time_
  /\ ~display_absolute_time_

NextFilter ==
  \/ AppendFiltered
  \/ ProcessOldMessages
  \/ setNodeFilter
  \/ setSeverityFilter
  \/ setUseRegularExpressions
  \/ setIncludeFilters
  \/ setExcludeFilters
  \/ setIncludeRegexpPattern
  \/ setExcludeRegexpPattern
  \/ clear

SpecFilter == InitFilter /\ [][NextFilter]_vars

\* every filter setter and clear over a store long enough for catch-up to
\* take two idle callbacks, so that a reset can find a pending batch
NextReset ==
  \/ AppendForReset
  \/ ProcessOldMessages
  \/ setNodeFilter
  \/ setSeverityFilter
  \/ setUseRegularExpressions
  \/ setIncludeFilters
  \/ setExcludeFilters
  \/ setIncludeRegexpPattern
  \/ setExcludeRegexpPattern
  \/ clear

SpecReset == InitFilter /\ [][NextReset]_vars

\* the display settings and the origin-time update during deliveries and
\* catch-up; the filter is changed through the node names only
InitDisplay ==
  /\ Init
  /\ ~use_regular_expressions_
  /\ severity_mask_ = WARN + ERROR

NextDisplay ==
  \/ AppendBacklog
  \/ ProcessOldMessages
  \/ setNodeFilter
  \/ setAbsoluteTime
  \/ setDisplayTime
  \/ minTimeUpdated

SpecDisplay == InitDisplay /\ [][NextDisplay]_vars

-----------------------------------------------------------------------------
(* Properties *)

strictlyIncreasing(seq) == \A i \in 1 .. (Len(seq) - 1) : seq[i] < seq[i + 1]

elements(seq) == { seq[i] : i \in 1 .. Len(seq) }

\* the store positions in [lo, hi) whose record the current filter accepts
acceptedPositions(lo, hi) ==
  { i \in lo .. (hi - 1) : acceptLogEntry(log[i + 1]) }

\* seq lists exactly the accepted positions of [lo, hi), each once, ascending
listsAccepted(seq, lo, hi) ==
  /\ strictlyIncreasing(seq)
  /\ elements(seq) = acceptedPositions(lo, hi)

rowsInsertedIn(signals) == SelectSeq(signals, LAMBDA n : n.sig = "rowsInserted")

\* C1: once the backward cursor is 0, the filtered view is exactly the
\* ascending list of the accepted store positions below the forward cursor:
\* the accepted records that were there at the reset followed by the accepted
\* ones added since, none twice and none missing.
C1_CatchUpComplete ==
  earliest_index_ = 0 => listsAccepted(msg_mapping_, 0, latest_index_)

\* C1 witness: a backlog of several batches was caught up while records were
\* appended, and the view holds old and new positions but not all of them.
C1_Witness ==
  /\ earliest_index_ = 0
  /\ resetSize > 2 * BatchSize
  /\ latest_index_ > resetSize
  /\ Len(msg_mapping_) < latest_index_
  /\ \E i \in 1 .. Len(msg_mapping_) : msg_mapping_[i] < resetSize
  /\ \E i \in 1 .. Len(msg_mapping_) : msg_mapping_[i] >= resetSize

\* C2: when every record of the store was appended after the last reset
\* (the view was reset over an empty store), the row count equals the number
\* of stored records the filter accepts.
C2_RowCountForward ==
  resetSize = 0 =>
    rowCount = Cardinality({ i \in 1 .. Len(log) : acceptLogEntry(log[i]) })

\* C2 witness: after several appends over a view reset on the empty store,
\* the last one inserted rows, and some records were rejected.
C2_Witness ==
  /\ resetSize = 0
  /\ Len(log) > 2 * BatchSize
  /\ rowCount > BatchSize
  /\ rowCount < Len(log)
  /\ rowsInsertedIn(emitted) # << >>
  /\ emitted[1].first > 0

\* C3: an idle callback that was queued before the last reset changes neither
\* the cursors, nor the pending batch, nor the view when it runs, and queues
\* no further callback.
C3_StaleStepIsNoOp ==
  [][ (timers # << >> /\ Head(timers) = "stale" /\ steps' = steps + 1)
        => (UNCHANGED engineVars /\ timers' = Tail(timers)) ]_vars

\* from-scratch construction: a view created over store content lg and run
\* until the backward cursor is 0
RECURSIVE catchUp(_, _)
catchUp(lg, st) ==
  IF st.earliest = 0 THEN st.mapping
  ELSE catchUp(lg, stepOld(lg, st.earliest, st.early, st.mapping))

freshView(lg) ==
  catchUp(lg, [earliest |-> Len(lg), early |-> << >>, mapping |-> << >>])

\* C4: once forward extension and backward catch-up have run to completion
\* after a reset, the view equals the one a fresh view builds from scratch
\* over the same store under the current filter.
C4_ResetRebuilds ==
  (earliest_index_ = 0 /\ latest_index_ = Len(log))
    => msg_mapping_ = freshView(log)

\* C4 witness: a reset threw away a non-empty view, and the rebuild over a
\* non-empty backlog plus appended records is complete and filters.
C4_Witness ==
  /\ discarded
  /\ earliest_index_ = 0
  /\ latest_index_ = Len(log)
  /\ resetSize > BatchSize
  /\ Len(log) > resetSize
  /\ msg_mapping_ # << >>
  /\ Len(msg_mapping_) < Len(log)

\* C5: the filtered view is a strictly increasing sequence of valid store
\* positions.
C5_ViewIncreasing ==
  /\ strictlyIncreasing(msg_mapping_)
  /\ \A i \in 1 .. Len(msg_mapping_) :
       msg_mapping_[i] >= 0 /\ msg_mapping_[i] < Len(log)

\* C5 witness: a threshold flush with the backward cursor still above 0 and
\* two idle callbacks queued, in front of rows that were already there.
C5_Witness ==
  /\ Len(timers) >= 2
  /\ earliest_index_ > 0
  /\ rowsInsertedIn(emitted) # << >>
  /\ emitted[1].first = 0
  /\ emitted[1].last >= FlushThreshold
  /\ Len(msg_mapping_) > emitted[1].last + 1

ceilDiv(n, d) == (n + d - 1) \div d

\* C6: after a reset over N records the backward cursor is 0 exactly from
\* the ceil(N / 100)-th run of the catch-up step on, and while it is above 0
\* it eventually reaches 0.
C6_CatchUpTerminates ==
  /\ []((earliest_index_ = 0) <=> (steps >= ceilDiv(resetSize, BatchSize)))
  /\ (earliest_index_ > 0) ~> (earliest_index_ = 0)

\* C6 witness: a backlog that is no multiple of the batch size, part of it
\* rejected, caught up in ceil(N / 100) runs with records appended meanwhile.
C6_Witness ==
  /\ resetSize = 2 * BatchSize + 50
  /\ steps = 3
  /\ earliest_index_ = 0
  /\ Len(log) > resetSize
  /\ Len(msg_mapping_) < Len(log)

\* C7: row access outside [0, rowCount) yields the invalid value without
\* indexing the view, and inside the range it yields the record at
\* msg_mapping_[row].
C7_RowAccessChecked ==
  returned # NoValue =>
    IF returned.row >= 0 /\ returned.row < rowCount
      THEN returned.value = variantOf(msg_mapping_[returned.row + 1], returned.role)
      ELSE returned.value = [kind |-> "invalid", index |-> -1]

\* C8: setting a malformed include pattern in pattern mode makes
\* isIncludeValid false and leaves the view as it was.
C8_MalformedPatternKeepsView ==
  [][ (use_regular_expressions_ /\ include_regexp_' # include_regexp_
         /\ ~isValid(include_regexp_'))
        => (~isIncludeValid' /\ msg_mapping_' = msg_mapping_) ]_vars

\* C9: an export, text or bag, writes one entry per row of the view, in row
\* order, each for the record at msg_mapping_[row].
C9_ExportFollowsView ==
  written # NoValue => written.entries = msg_mapping_

\* the view was reset over 250 records that the filter all accepts
scenario250 ==
  /\ resetSize = 250
  /\ Len(log) >= 250
  /\ \A i \in 1 .. 250 : acceptLogEntry(log[i])

\* C10: with 250 accepted records at the reset, the 1st and 2nd catch-up
\* steps insert no rows and the 3rd inserts rows 0..249 in one notification,
\* leaving positions 0..249 in ascending order at the front of the view and
\* the pending batch empty.
C10_FlushAtThirdStep ==
  [][ (scenario250 /\ steps' = steps + 1) =>
        CASE steps' \in { 1, 2 } ->
               /\ rowsInsertedIn(emitted') = << >>
               /\ msg_mapping_' = msg_mapping_
               /\ Len(early_mapping_') = BatchSize * steps'
          [] steps' = 3 ->
               /\ rowsInsertedIn(emitted') = << rowsInserted(0, 249) >>
               /\ early_mapping_' = << >>
               /\ SubSeq(msg_mapping_', 1, 250) = [i \in 1 .. 250 |-> i - 1]
               /\ Len(msg_mapping_') = 250 + Len(msg_mapping_)
          [] OTHER -> TRUE ]_vars

\* C10 witness: the third step has run over the 250 accepted records.
C10_Witness ==
  /\ scenario250
  /\ steps = 3
  /\ earliest_index_ = 0
  /\ early_mapping_ = << >>
  /\ rowsInsertedIn(emitted) = << rowsInserted(0, 249) >>

-----------------------------------------------------------------------------
(* The filter predicate *)

\* the severity bit is one of the bits of the mask
maskHasBit(mask, bit) == (mask \div bit) % 2 = 1

\* a pattern matches a text: it is well-formed and the text holds a copy of it
patternMatches(pattern, text) == isValid(pattern) /\ contains(text, pattern, TRUE)

includeRulePasses(e) ==
  IF use_regular_expressions_
    THEN patternMatches(include_regexp_, e.msg)
    ELSE \/ include_strings_ = << >>
         \/ \E s \in elements(include_strings_) : contains(e.msg, s, FALSE)

excludeRuleFires(e) ==
  IF use_regular_expressions_
    THEN exclude_regexp_ # << >> /\ patternMatches(exclude_regexp_, e.msg)
    ELSE \E s \in elements(exclude_strings_) : contains(e.msg, s, FALSE)

\* records INFO, WARN, ERROR from node A under mask {WARN, ERROR} and names
\* {A}, with no text filter configured
scenarioSeverities ==
  /\ log = << E_infoA, E_warnA, E_errorA >>
  /\ severity_mask_ = WARN + ERROR
  /\ names_ = { "A" }
  /\ include_strings_ = << >>
  /\ exclude_strings_ = << >>
  /\ include_regexp_ = Str_empty
  /\ exclude_regexp_ = Str_empty

\* C11: acceptLogEntry accepts a record exactly when its severity bit is in
\* the mask, its node is in the accepted names, the include rule passes and
\* the exclude rule does not fire; and for records INFO, WARN, ERROR from
\* node A under mask {WARN, ERROR} and names {A} the completed view has two
\* rows, the WARN record at row 0 and the ERROR record at row 1.
C11_AcceptRule ==
  /\ \A e \in FilterEntries :
       acceptLogEntry(e) <=> /\ maskHasBit(severity_mask_, e.level)
                             /\ e.node \in names_
                             /\ includeRulePasses(e)
                             /\ ~excludeRuleFires(e)
  /\ (scenarioSeverities /\ earliest_index_ = 0 /\ latest_index_ = Len(log))
       => /\ rowCount = 2
          /\ log[msg_mapping_[1] + 1] = E_warnA
          /\ log[msg_mapping_[2] + 1] = E_errorA

\* C11 witness: the scenario's view was completed by catch-up over the three
\* records, after a reset that threw away an earlier view.
C11_Witness ==
  /\ scenarioSeverities
  /\ resetSize = 3
  /\ discarded
  /\ earliest_index_ = 0
  /\ msg_mapping_ = << 1, 2 >>

-----------------------------------------------------------------------------
(* Forward extension *)

\* the rows of the view for records that arrived after the last reset
viewSince == SelectSeq(msg_mapping_, LAMBDA i : i >= resetSize)

\* a step of the forward slot: the database delivered records (only a
\* delivery makes the store longer), or the slot ran with nothing new
forwardExtension == Len(log') > Len(log) \/ ProcessNewMessages

\* C12: a forward extension leaves the forward cursor at the store size
\* whether or not the scanned records were accepted; invoked with no new
\* record it changes nothing and emits nothing; and the rows added since the
\* last reset list each accepted position from the reset's store size up to
\* the forward cursor exactly once.
C12_ForwardCursor ==
  [][ forwardExtension =>
        /\ latest_index_' = Len(log')
        /\ (latest_index_ = Len(log')
              => (UNCHANGED << engineVars, timers >> /\ emitted' = << >>))
        /\ listsAccepted(viewSince, resetSize, latest_index_)' ]_vars

\* C12 witness: after a reset over a non-empty store, two deliveries with
\* accepted and rejected records, then an invocation that emitted nothing.
C12_Witness ==
  /\ resetSize > 0
  /\ Len(log) >= resetSize + 2 * BatchSize
  /\ latest_index_ = Len(log)
  /\ emitted = << >>
  /\ viewSince # << >>
  /\ Len(viewSince) < Len(log) - resetSize

\* the positions the forward scan of this step visits and accepts
newlyAccepted ==
  { i \in latest_index_ .. (Len(log') - 1) : acceptLogEntry(log'[i + 1]) }

\* C13: a forward extension that accepts k > 0 records emits exactly one
\* rowsInserted, for rows old_row_count .. old_row_count + k - 1, and appends
\* the k positions in ascending order behind the rows that were there, which
\* stay as they were; one that accepts none emits nothing and leaves the
\* view, the pending batch and the backward cursor unchanged.
C13_OneInsertPerExtension ==
  [][ forwardExtension =>
        LET added == SubSeq(msg_mapping_', rowCount + 1, Len(msg_mapping_')) IN
          /\ Len(msg_mapping_') >= rowCount
          /\ SubSeq(msg_mapping_', 1, rowCount) = msg_mapping_
          /\ strictlyIncreasing(added)
          /\ elements(added) = newlyAccepted
          /\ UNCHANGED << early_mapping_, earliest_index_ >>
          /\ IF added # << >>
               THEN rowsInsertedIn(emitted')
                      = << rowsInserted(rowCount, rowCount + Len(added) - 1) >>
               ELSE emitted' = << >> ]_vars

\* C13 witness: a delivery of 100 records, half of them accepted, was
\* appended behind existing rows while catch-up was still under way with a
\* non-empty pending batch.
C13_Witness ==
  /\ rowsInsertedIn(emitted) # << >>
  /\ emitted[1].first > 0
  /\ emitted[1].last - emitted[1].first + 1 = BatchSize \div 2
  /\ emitted[1].last = rowCount - 1
  /\ earliest_index_ > 0
  /\ early_mapping_ # << >>

-----------------------------------------------------------------------------
(* Catch-up steps *)

\* a run of processOldMessages
catchUpStep == steps' = steps + 1

\* the accepted positions among those this step scanned, in ascending order
scannedAccepted ==
  SelectSeq([k \in 1 .. (earliest_index_ - earliest_index_') |->
               earliest_index_' + k - 1],
            LAMBDA i : acceptLogEntry(log[i + 1]))

\* the pending batch as it stands when the scan of this step is over
pendingAfterScan == scannedAccepted \o early_mapping_

\* C14: a catch-up step flushes exactly when, after its scan, the backward
\* cursor is 0 with a non-empty pending batch or the pending batch holds more
\* than 200 positions.  A flush puts the whole pending batch, ascending, in
\* front of the rows that were there, which keep their order, emits one
\* rowsInserted(0, pending_size - 1) and empties the pending batch; a step
\* that does not flush leaves the view unchanged and emits nothing.
C14_FlushRule ==
  [][ catchUpStep =>
        LET pending == pendingAfterScan
            n == Len(pending)
        IN  IF (earliest_index_' = 0 /\ n > 0) \/ n > 200
              THEN /\ rowsInsertedIn(emitted') = << rowsInserted(0, n - 1) >>
                   /\ early_mapping_' = << >>
                   /\ msg_mapping_' = pending \o msg_mapping_
                   /\ strictlyIncreasing(pending)
              ELSE /\ emitted' = << >>
                   /\ msg_mapping_' = msg_mapping_
                   /\ early_mapping_' = pending ]_vars

\* C14 witness: catch-up over more than 300 accepted records flushed at the
\* threshold in its third step and then, in its fourth, with the backward
\* cursor at 0, flushed the rest in front of the rows of the first flush.
C14_Witness ==
  /\ resetSize > 3 * BatchSize
  /\ Len(log) = resetSize
  /\ steps = 4
  /\ earliest_index_ = 0
  /\ early_mapping_ = << >>
  /\ rowsInsertedIn(emitted) = << rowsInserted(0, resetSize - 3 * BatchSize - 1) >>
  /\ msg_mapping_ = [i \in 1 .. resetSize |-> i - 1]

\* a reset: the only operation that emits modelReset
resetStep == emitted' = << modelReset >>

min(a, b) == IF a < b THEN a ELSE b

\* C15: between two resets, a catch-up step lowers the backward cursor by
\* exactly min(100, backward cursor), and the positions it adds to the
\* pending batch or the view are the accepted ones among those it passed;
\* no other step moves the backward cursor, which stays within 0 and its
\* old value and stays 0 once it is 0; the forward cursor never decreases
\* and never exceeds the store size.
C15_CursorsMonotone ==
  [][ ~resetStep =>
        /\ IF catchUpStep
             THEN /\ earliest_index_' = earliest_index_ - min(100, earliest_index_)
                  /\ elements(early_mapping_' \o msg_mapping_')
                        \ elements(early_mapping_ \o msg_mapping_)
                      = acceptedPositions(earliest_index_', earliest_index_)
             ELSE earliest_index_' = earliest_index_
        /\ earliest_index_' >= 0
        /\ earliest_index_' <= earliest_index_
        /\ (earliest_index_ = 0 => earliest_index_' = 0)
        /\ latest_index_' >= latest_index_
        /\ latest_index_' <= Len(log') ]_vars

\* C15 witness: after a second reset, over 150 records, a full step and a
\* step of the 50 positions left took the backward cursor to 0 while
\* deliveries moved the forward cursor, with some records rejected.
C15_Witness ==
  /\ discarded
  /\ resetSize = BatchSize + 50
  /\ steps = 2
  /\ earliest_index_ = 0
  /\ latest_index_ = Len(log)
  /\ Len(log) > resetSize
  /\ rowCount < Len(log)
  /\ rowCount > resetSize

\* how many idle callbacks this step queued: a catch-up step first takes
\* the callback that is running off the queue
scheduled ==
  IF catchUpStep THEN Len(timers') - (Len(timers) - 1)
                 ELSE Len(timers') - Len(timers)

\* C16: a catch-up step or a reset queues one further catch-up step when
\* the backward cursor is above 0 at its end and none when it is 0; no other
\* operation queues one; and with the backward cursor at 0 the only step
\* that queues one is a reset over a non-empty store.
C16_ScheduleRule ==
  [][ /\ (catchUpStep \/ resetStep)
          => scheduled = (IF earliest_index_' > 0 THEN 1 ELSE 0)
      /\ ~(catchUpStep \/ resetStep) => scheduled = 0
      /\ (earliest_index_ = 0 /\ scheduled > 0)
          => (resetStep /\ Len(log') > 0) ]_vars

\* C16 witness: a reset over 150 records found the callback of an earlier
\* reset still queued; three callbacks ran, the third with the backward
\* cursor already at 0, and the queue is empty.
C16_Witness ==
  /\ resetSize = BatchSize + 50
  /\ steps = 3
  /\ earliest_index_ = 0
  /\ timers = << >>
  /\ emitted = << >>

-----------------------------------------------------------------------------
(* Resets *)

\* a call of one of the filter setters; setUseRegularExpressions called with
\* the value already set returns at once and is no step
filterSetter ==
  \/ setNodeFilter
  \/ setSeverityFilter
  \/ setUseRegularExpressions
  \/ setIncludeFilters
  \/ setExcludeFilters
  \/ setIncludeRegexpPattern
  \/ setExcludeRegexpPattern

\* C17: right after a filter setter or clear, whatever the state before, the
\* view is empty, the pending batch is empty and both cursors equal the store
\* size; after clear the store is empty, so both cursors are 0, and no
\* catch-up step was queued.
C17_StateAfterReset ==
  [][ /\ (filterSetter \/ clear)
          => /\ resetStep
             /\ rowCount' = 0
             /\ early_mapping_' = << >>
             /\ latest_index_' = Len(log')
             /\ earliest_index_' = Len(log')
      /\ clear
          => /\ log' = << >>
             /\ latest_index_' = 0
             /\ earliest_index_' = 0
             /\ Len(timers') = Len(timers) ]_vars

\* C17 witness: a reset through the include pattern, over 150 records, taken
\* while the callback of the reset before it was still queued and after a
\* non-empty view had been thrown away.
C17_Witness ==
  /\ emitted = << modelReset >>
  /\ discarded
  /\ use_regular_expressions_
  /\ include_regexp_ = Str_Err
  /\ Len(log) = BatchSize + 50
  /\ msg_mapping_ = << >>
  /\ early_mapping_ = << >>
  /\ earliest_index_ = Len(log)
  /\ latest_index_ = Len(log)
  /\ timers = << "stale", "current" >>

-----------------------------------------------------------------------------
(* Display settings *)

\* a call of one of the cosmetic operations; a display setter called with
\* the value already set returns at once and is no step
cosmetic == setAbsoluteTime \/ setDisplayTime \/ minTimeUpdated

\* C18: setDisplayTime, setAbsoluteTime and minTimeUpdated leave the view,
\* the pending batch, both cursors, the store and the queued catch-up steps
\* unchanged and emit no modelReset; they emit nothing, or a single
\* dataChanged and that only when the view has rows.
C18_CosmeticKeepsView ==
  [][ cosmetic =>
        /\ UNCHANGED << msg_mapping_, early_mapping_, earliest_index_,
                        latest_index_, timers, log >>
        /\ ~resetStep
        /\ \/ emitted' = << >>
           \/ /\ rowCount > 0
              /\ Len(emitted') = 1
              /\ emitted'[1].sig = "dataChanged" ]_vars

\* C18 witness: a display change emitted dataChanged while the view had
\* rows, the pending batch was non-empty, the backward cursor was above 0 and
\* a catch-up step was queued.
C18_Witness ==
  /\ emitted = << dataChanged(0, rowCount) >>
  /\ rowCount > 0
  /\ early_mapping_ # << >>
  /\ earliest_index_ > 0
  /\ timers # << >>

-----------------------------------------------------------------------------
(* Coverage *)

\* C19: between operations the pending batch followed by the view is
\* exactly the ascending list of the accepted store positions from the
\* backward cursor up to the forward cursor, and the backward cursor is at
\* most the forward cursor, which is at most the store size.
C19_Coverage ==
  /\ earliest_index_ <= latest_index_
  /\ latest_index_ <= Len(log)
  /\ listsAccepted(early_mapping_ \o msg_mapping_, earliest_index_, latest_index_)

\* C19 witness: catch-up is under way with a non-empty pending batch, rows
\* were appended meanwhile, and some records on either side were rejected.
C19_Witness ==
  /\ earliest_index_ > 0
  /\ early_mapping_ # << >>
  /\ msg_mapping_ # << >>
  /\ latest_index_ > resetSize
  /\ Len(early_mapping_) < resetSize - earliest_index_
  /\ Len(msg_mapping_) < latest_index_ - resetSize

\* C20: between operations, so at the end of every catch-up step and of
\* every reset, the pending batch holds at most 200 positions, and it is
\* empty whenever the backward cursor is 0.
C20_PendingBounded ==
  /\ Len(early_mapping_) <= 200
  /\ earliest_index_ = 0 => early_mapping_ = << >>

\* C20 witness: a catch-up step has just ended with exactly 200 positions
\* pending and the backward cursor still above 0.
C20_Witness ==
  /\ steps = 2
  /\ emitted = << >>
  /\ Len(early_mapping_) = 200
  /\ earliest_index_ > 0

====
